---- MODULE Spec2Model ----
(***************************************************************************)
(* Model of vision_craft_bot.py: the UserDataManager ledger (credits,      *)
(* daily bonus, referral, video counter, persisted JSON document) and the  *)
(* update handlers that drive it.  A handler is a coroutine: it is a task  *)
(* whose position (pc) is the await it is suspended at, and one action     *)
(* runs the code between two awaits.                                       *)
(***************************************************************************)
EXTENDS Integers, Sequences, FiniteSets, TLC

VARIABLES
    db_manager,     \* the UserDataManager singleton: users_data (dict, with
                    \* its insertion order) and the document on disk
    now,            \* datetime.utcnow(), in whole hours
    conv,           \* video_conv: state of each (chat, user) conversation
    tasks,          \* the handler coroutines in flight, one per slot
    awards,         \* history: awards[a][b] = referral credits applied to
                    \* a's account for referring b
    claims,         \* history: claims[u] = bonus claims that returned True
    bconv,          \* broadcast_conv: state of each (chat, user) conversation
    user_data,      \* users whose context.user_data holds 'broadcast_message'
    panel,          \* chats that show an Admin Panel message
    confirm         \* chats that show a Confirm & Send button

adminVars == <<bconv, user_data, panel, confirm>>
vars == <<db_manager, now, conv, tasks, awards, claims, adminVars>>

(***************************************************************************)
(* Configuration                                                           *)
(***************************************************************************)
STARTING_CREDITS == 50
VIDEO_COST == 10
DAILY_BONUS == 20
REFERRAL_BONUS == 30
BONUS_HOURS == 24

\* Telegram user ids: two users and the administrator
Ids == {1, 2, 3}
ADMIN_IDS == {3}
Users == {1, 2}
\* The private chat of a user, and one group chat the bot was added to
PRIVATE == "private"
GROUP == "group"
\* users who also talk to the bot in the group chat
GroupMembers == {1, 3}
\* users who press "Generate Video"
Creators == {1}
ConvKeys == {<<PRIVATE, u>> : u \in Ids} \cup {<<GROUP, u>> : u \in GroupMembers}

\* Bounds of the model
MaxClock == 24
MaxVideos == 6
\* the same, with updates dispatched concurrently
MaxVideosConcurrent == 1

\* hours the clock moves at a time
TickHours == {12}

None == -1
NoStamp == <<>>

(***************************************************************************)
(* Conversions                                                             *)
(***************************************************************************)
\* str(user_id): the dict key of an account; int(key) is its inverse
str(n) == <<n>>
int(s) == s[1]

\* datetime.isoformat() / datetime.fromisoformat(): a stamp is <<day, hour>>
isoformat(t) == <<t \div 24, t % 24>>
fromisoformat(s) == s[1] * 24 + s[2]

Keys == {str(u) : u \in Ids}

(***************************************************************************)
(* UserDataManager                                                         *)
(***************************************************************************)
NewAccount ==
    [credits |-> STARTING_CREDITS, videos_created |-> 0,
     last_bonus_claim |-> NoStamp, referred_by |-> None]

EmptyDict == [k \in {} |-> NewAccount]

\* __init__/_load_data with no file on disk
NewManager ==
    [users_data |-> EmptyDict, keys |-> <<>>,
     file |-> [exists |-> FALSE, users_data |-> EmptyDict, keys |-> <<>>]]

\* json.dump of the whole dict, in its insertion order
save_data(db) ==
    [db EXCEPT !.file = [exists |-> TRUE, users_data |-> db.users_data,
                         keys |-> db.keys]]

\* the account written without looking for an existing one
add_userAlwaysNew(db, user_id) ==
    LET k == str(user_id)
        d == [x \in (DOMAIN db.users_data) \cup {k} |->
                 IF x = k THEN NewAccount ELSE db.users_data[x]]
    IN [db |-> save_data([db EXCEPT !.users_data = d,
                             !.keys = IF k \in DOMAIN db.users_data THEN @
                                      ELSE Append(@, k)]),
        ret |-> TRUE]

add_user(db, user_id) ==
    LET k == str(user_id)
    IN IF k \notin DOMAIN db.users_data
       THEN [db |-> save_data(
                 [db EXCEPT
                    !.users_data = [x \in (DOMAIN @) \cup {k} |->
                                       IF x = k THEN NewAccount ELSE @[x]],
                    !.keys = Append(@, k)]),
             ret |-> TRUE]
       ELSE [db |-> db, ret |-> FALSE]

\* get_user(id) is None exactly when has_user(db, id) is false
has_user(db, user_id) == str(user_id) \in DOMAIN db.users_data
get_user(db, user_id) == db.users_data[str(user_id)]

get_all_user_ids(db) == db.keys

\* the amount stored in place of the balance
update_creditsOverwrite(db, user_id, amount) ==
    LET k == str(user_id)
    IN IF k \in DOMAIN db.users_data
       THEN LET d == save_data([db EXCEPT !.users_data[k].credits = amount])
            IN [db |-> d, ret |-> d.users_data[k].credits, absent |-> FALSE]
       ELSE [db |-> db, ret |-> None, absent |-> TRUE]

\* a debit the balance does not cover refused
update_creditsClamped(db, user_id, amount) ==
    LET k == str(user_id)
    IN IF k \in DOMAIN db.users_data /\ db.users_data[k].credits + amount >= 0
       THEN LET d == save_data([db EXCEPT !.users_data[k].credits = @ + amount])
            IN [db |-> d, ret |-> d.users_data[k].credits, absent |-> FALSE]
       ELSE [db |-> db, ret |-> None, absent |-> TRUE]

\* absent: the function falls off its end and returns None, which is told
\* apart from every balance
update_credits(db, user_id, amount) ==
    LET k == str(user_id)
    IN IF k \in DOMAIN db.users_data
       THEN LET d == save_data([db EXCEPT !.users_data[k].credits = @ + amount])
            IN [db |-> d, ret |-> d.users_data[k].credits, absent |-> FALSE]
       ELSE [db |-> db, ret |-> None, absent |-> TRUE]

\* the count incremented in memory only
record_video_generationNoSave(db, user_id) ==
    LET k == str(user_id)
    IN IF k \in DOMAIN db.users_data
       THEN [db EXCEPT !.users_data[k].videos_created = @ + 1]
       ELSE db

record_video_generation(db, user_id) ==
    LET k == str(user_id)
    IN IF k \in DOMAIN db.users_data
       THEN save_data([db EXCEPT !.users_data[k].videos_created = @ + 1])
       ELSE db

\* the 24 hours left out of the comparison
can_claim_bonusNoWindow(db, user_id, utcnow) ==
    IF ~has_user(db, user_id) THEN TRUE
    ELSE IF get_user(db, user_id).last_bonus_claim = NoStamp THEN TRUE
    ELSE utcnow >= fromisoformat(get_user(db, user_id).last_bonus_claim)

can_claim_bonus(db, user_id, utcnow) ==
    IF ~has_user(db, user_id) THEN TRUE
    ELSE IF get_user(db, user_id).last_bonus_claim = NoStamp THEN TRUE
    ELSE utcnow >= fromisoformat(get_user(db, user_id).last_bonus_claim)
                       + BONUS_HOURS

\* the claim credited without its time being stored
claim_bonusNoStamp(db, user_id, utcnow) ==
    IF ~has_user(db, user_id) THEN [db |-> db, ret |-> FALSE, raised |-> TRUE]
    ELSE [db |-> save_data(update_credits(db, user_id, DAILY_BONUS).db),
          ret |-> TRUE, raised |-> FALSE]

\* the time of the claim stored and saved, the credit forgotten
claim_bonusStampOnly(db, user_id, utcnow) ==
    LET k == str(user_id)
    IN IF can_claim_bonus(db, user_id, utcnow)
       THEN IF k \notin DOMAIN db.users_data
            THEN [db |-> db, ret |-> FALSE, raised |-> TRUE, writes |-> <<>>]
            ELSE LET d1 == save_data([db EXCEPT !.users_data[k].last_bonus_claim =
                                                    isoformat(utcnow)])
                 IN [db |-> d1, ret |-> TRUE, raised |-> FALSE,
                     writes |-> <<d1.file>>]
       ELSE [db |-> db, ret |-> FALSE, raised |-> FALSE, writes |-> <<>>]

\* raised: the KeyError of line 100 for an id that has no account
\* writes: the documents the call wrote, in order (lines 83 and 101)
claim_bonus(db, user_id, utcnow) ==
    LET k == str(user_id)
    IN IF can_claim_bonus(db, user_id, utcnow)
       THEN IF k \notin DOMAIN db.users_data
            THEN [db |-> db, ret |-> FALSE, raised |-> TRUE, writes |-> <<>>]
            ELSE LET d1 == [db EXCEPT !.users_data[k].last_bonus_claim =
                                          isoformat(utcnow)]
                     d2 == update_credits(d1, user_id, DAILY_BONUS).db
                     d3 == save_data(d2)
                 IN [db |-> d3, ret |-> TRUE, raised |-> FALSE,
                     writes |-> <<d2.file, d3.file>>]
       ELSE [db |-> db, ret |-> FALSE, raised |-> FALSE, writes |-> <<>>]

\* the referrer written without looking at the one already stored
set_referrerOverwrite(db, user_id, referrer_id) ==
    LET k == str(user_id)
    IN IF k \in DOMAIN db.users_data
       THEN [db |-> save_data([db EXCEPT !.users_data[k].referred_by = referrer_id]),
             ret |-> TRUE]
       ELSE [db |-> db, ret |-> FALSE]

set_referrer(db, user_id, referrer_id) ==
    LET k == str(user_id)
    IN IF k \in DOMAIN db.users_data /\ db.users_data[k].referred_by = None
       THEN [db |-> save_data([db EXCEPT !.users_data[k].referred_by = referrer_id]),
             ret |-> TRUE]
       ELSE [db |-> db, ret |-> FALSE]

(***************************************************************************)
(* Handler tasks                                                           *)
(***************************************************************************)
\* what /start carries as context.args[0], or the check_join_ suffix
RefArgs(users) == users \cup {None}

\* ChatMember.status values, or the call raising
Statuses == {"member", "administrator", "creator", "restricted", "left",
             "kicked", "error"}

\* outcome of delivering one message to a chat
Deliveries == {"ok", "Forbidden", "BadRequest", "TimedOut"}

\* what requests.get / raise_for_status / response.json produce
Responses == {"Timeout", "HTTPError", "BadJSON", "SuccessFalse",
              "SuccessNoUrl", "SuccessOk"}

\* a coroutine: the await it is suspended at (pc), the locals still in use
\* and the messages it has delivered (out)
Task(pc, user) ==
    [pc |-> pc, user |-> user, chat |-> "", ref |-> None, flag |-> FALSE,
     resp |-> "", out |-> {}, todo |-> <<>>, sent |-> 0, failed |-> 0]

\* slots for the coroutines in flight
Slots == {1, 2}
Idle == Task("idle", 0)
AllIdle == \A t \in Slots : tasks[t] = Idle
Running == {tasks[t] : t \in Slots} \ {Idle}
Spawn(r) ==
    \E t \in Slots :
        /\ tasks[t] = Idle
        /\ \A s \in Slots : s < t => tasks[s] # Idle
        /\ tasks' = [tasks EXCEPT ![t] = r]
Step(r, r2) == \E t \in Slots : tasks[t] = r /\ tasks' = [tasks EXCEPT ![t] = r2]
Return(r) == Step(r, Idle)

Init ==
    /\ db_manager = NewManager
    /\ now = 0
    /\ conv = [k \in ConvKeys |-> "END"]
    /\ tasks = [t \in Slots |-> Idle]
    /\ awards = [a \in Ids |-> [b \in Ids |-> 0]]
    /\ claims = [u \in Ids |-> 0]
    /\ bconv = [k \in ConvKeys |-> "END"]
    /\ user_data = {}
    /\ panel = {}
    /\ confirm = {}

\* datetime.utcnow() moves on
Tick(maxClock) ==
    /\ \E h \in TickHours : now + h <= maxClock /\ now' = now + h
    /\ UNCHANGED <<adminVars, db_manager, conv, tasks, awards, claims>>

\* what get_chat_member answered: a status of a member ("in"), another
\* status ("out"), or nothing because the call raised ("error")
GateAnswer(status) ==
    IF status = "error" THEN "error"
    ELSE IF status \in {"member", "administrator", "creator"} THEN "in"
    ELSE "out"

\* the except of line 119 left out: a call that raised counts as a member
is_user_member_of_channelFailOpen(status) ==
    status \notin {"restricted", "left", "kicked"}

is_user_member_of_channel(status) ==
    IF status = "error" THEN FALSE
    ELSE status \in {"member", "administrator", "creator"}

\* the referrer credited without looking whether the account is new
AdmitCreditAgain(db, user_id, referrer_id) ==
    LET a == add_user(db, user_id)
    IN IF referrer_id # None /\ referrer_id # 0 /\ referrer_id # user_id
       THEN LET s == set_referrer(a.db, user_id, referrer_id).db
                c == update_credits(s, referrer_id, REFERRAL_BONUS)
            IN [db |-> c.db, is_new |-> a.ret, referred |-> TRUE,
                credited |-> ~c.absent]
       ELSE [db |-> a.db, is_new |-> a.ret, referred |-> FALSE,
             credited |-> FALSE]

\* lines 129-132 / 159-162: add_user, then set_referrer and the referrer's
\* credit.  credited: update_credits found the referrer's account.
Admit(db, user_id, referrer_id) ==
    LET a == add_user(db, user_id)
    IN IF ~a.ret THEN [db |-> a.db, is_new |-> FALSE, referred |-> FALSE,
                       credited |-> FALSE]
       ELSE IF referrer_id # None /\ referrer_id # 0 /\ referrer_id # user_id
               /\ set_referrer(a.db, user_id, referrer_id).ret
            THEN LET s == set_referrer(a.db, user_id, referrer_id).db
                     c == update_credits(s, referrer_id, REFERRAL_BONUS)
                 IN [db |-> c.db, is_new |-> TRUE, referred |-> TRUE,
                     credited |-> ~c.absent]
            ELSE [db |-> a.db, is_new |-> TRUE, referred |-> FALSE,
                  credited |-> FALSE]

Award(aw, referrer_id, user_id) ==
    [aw EXCEPT ![referrer_id][user_id] = @ + 1]

\* /start [referrer]: up to the await of get_chat_member (line 128)
start_command(u, ref) ==
    /\ Spawn([Task("start_gate", u) EXCEPT !.ref = ref])
    /\ UNCHANGED <<adminVars, db_manager, now, conv, awards, claims>>

\* lines 128-133, 140-147
start_gate(r) ==
    /\ r.pc = "start_gate"
    /\ \E status \in Statuses :
         IF is_user_member_of_channel(status)
         THEN LET a == Admit(db_manager, r.user, r.ref)
              IN /\ db_manager' = a.db
                 /\ awards' = IF a.credited THEN Award(awards, r.ref, r.user)
                              ELSE awards
                 /\ Step(r, IF a.referred
                            THEN [Task("start_notify", r.user) EXCEPT
                                     !.ref = r.ref, !.flag = TRUE,
                                     !.resp = GateAnswer(status)]
                            ELSE IF a.is_new
                            THEN [Task("start_welcome", r.user) EXCEPT
                                     !.flag = TRUE, !.resp = GateAnswer(status)]
                            ELSE [Task("start_menu", r.user) EXCEPT
                                     !.resp = GateAnswer(status)])
         ELSE /\ Step(r, [Task("start_denied", r.user) EXCEPT
                             !.out = {"access_denied"},
                             !.resp = GateAnswer(status)])
              /\ UNCHANGED <<adminVars, db_manager, awards>>
    /\ UNCHANGED <<adminVars, now, conv, claims>>

\* the referrer's credit taken back when the notification fails
start_notifyRollback(r) ==
    /\ r.pc = "start_notify"
    /\ \E d \in Deliveries :
         /\ Step(r, IF d = "ok"
                    THEN [Task("start_welcome", r.user) EXCEPT
                             !.flag = TRUE, !.out = {"referrer_notified"}]
                    ELSE [Task("raised", r.user) EXCEPT !.resp = "start_command"])
         /\ db_manager' = IF d = "ok" THEN db_manager
                          ELSE update_credits(db_manager, r.ref,
                                              -REFERRAL_BONUS).db
    /\ UNCHANGED <<adminVars, now, conv, awards, claims>>

\* line 133: send_message to the referrer, not guarded
start_notify(r) ==
    /\ r.pc = "start_notify"
    /\ \E d \in Deliveries :
         Step(r, IF d = "ok"
                 THEN [Task("start_welcome", r.user) EXCEPT
                          !.flag = TRUE, !.out = {"referrer_notified"}]
                 ELSE [Task("raised", r.user) EXCEPT !.resp = "start_command"])
    /\ UNCHANGED <<adminVars, db_manager, now, conv, awards, claims>>

\* lines 134-137: send_admin_notification (its failures are caught), welcome
start_welcome(r) ==
    /\ r.pc = "start_welcome"
    /\ Step(r, [Task("start_menu", r.user) EXCEPT
                   !.out = r.out \cup {"admin_notified", "welcome"}])
    /\ UNCHANGED <<adminVars, db_manager, now, conv, awards, claims>>

\* line 138 / 144: the last await of start_command returns
start_return(r) ==
    /\ r.pc \in {"start_menu", "start_denied"}
    /\ Return(r)
    /\ UNCHANGED <<adminVars, db_manager, now, conv, awards, claims>>

\* Verify Membership button: up to the await of get_chat_member (line 157)
check_join_callback(u, ref) ==
    /\ Spawn([Task("join_gate", u) EXCEPT !.ref = ref])
    /\ UNCHANGED <<adminVars, db_manager, now, conv, awards, claims>>

\* lines 157-158, 169
join_gate(r) ==
    /\ r.pc = "join_gate"
    /\ \E status \in Statuses :
         Step(r, IF is_user_member_of_channel(status)
                 THEN [Task("join_granted", r.user) EXCEPT
                          !.ref = r.ref, !.out = {"access_granted"},
                          !.resp = GateAnswer(status)]
                 ELSE [Task("join_denied", r.user) EXCEPT
                          !.out = {"not_joined"}, !.resp = GateAnswer(status)])
    /\ UNCHANGED <<adminVars, db_manager, now, conv, awards, claims>>

\* lines 159-164, after the await of edit_message_text
join_granted(r) ==
    /\ r.pc = "join_granted"
    /\ LET a == Admit(db_manager, r.user, r.ref)
       IN /\ db_manager' = a.db
          /\ awards' = IF a.credited THEN Award(awards, r.ref, r.user) ELSE awards
          /\ Step(r, IF a.referred
                     THEN [Task("join_notify", r.user) EXCEPT
                              !.ref = r.ref, !.flag = TRUE]
                     ELSE IF a.is_new
                     THEN [Task("join_admin", r.user) EXCEPT !.flag = TRUE]
                     ELSE Task("join_menu", r.user))
    /\ UNCHANGED <<adminVars, now, conv, claims>>

\* lines 163-165: send_message to the referrer, Forbidden caught
join_notify(r) ==
    /\ r.pc = "join_notify"
    /\ \E d \in Deliveries :
         Step(r, IF d \in {"ok", "Forbidden"}
                 THEN [Task("join_admin", r.user) EXCEPT
                          !.flag = TRUE,
                          !.out = IF d = "ok" THEN {"referrer_notified"} ELSE {}]
                 ELSE [Task("raised", r.user) EXCEPT !.resp = "check_join_callback"])
    /\ UNCHANGED <<adminVars, db_manager, now, conv, awards, claims>>

\* line 166: send_admin_notification
join_admin(r) ==
    /\ r.pc = "join_admin"
    /\ Step(r, [Task("join_menu", r.user) EXCEPT
                   !.out = r.out \cup {"admin_notified"}])
    /\ UNCHANGED <<adminVars, db_manager, now, conv, awards, claims>>

\* line 167 / 169
join_return(r) ==
    /\ r.pc \in {"join_menu", "join_denied"}
    /\ Return(r)
    /\ UNCHANGED <<adminVars, db_manager, now, conv, awards, claims>>

\* Claim Daily Bonus button: lines 267-272 up to the await of query.answer
claim_bonus_callback(u) ==
    /\ LET c == claim_bonus(db_manager, u, now)
       IN /\ db_manager' = c.db
          /\ claims' = IF c.ret THEN [claims EXCEPT ![u] = @ + 1] ELSE claims
          /\ Spawn(IF c.raised
                   THEN [Task("raised", u) EXCEPT !.resp = "claim_bonus_callback"]
                   ELSE [Task("bonus_answer", u) EXCEPT
                            !.flag = c.ret,
                            !.out = IF c.ret THEN {"claimed"}
                                    ELSE {"already_claimed"}])
    /\ UNCHANGED <<adminVars, now, conv, awards>>

bonus_return(r) ==
    /\ r.pc = "bonus_answer"
    /\ Return(r)
    /\ UNCHANGED <<adminVars, db_manager, now, conv, awards, claims>>

\* "My Account": lines 242-249 up to the await of reply_text.  get_user() of
\* an unknown id is None and line 247 raises TypeError.
my_account_command(u) ==
    /\ Spawn(IF ~has_user(db_manager, u)
             THEN [Task("raised", u) EXCEPT !.resp = "my_account_command"]
             ELSE [Task("account_shown", u) EXCEPT
                      !.out = {"my_account"},
                      !.sent = get_user(db_manager, u).credits,
                      !.failed = get_user(db_manager, u).videos_created])
    /\ UNCHANGED <<adminVars, db_manager, now, conv, awards, claims>>

\* line 250
account_return(r) ==
    /\ r.pc = "account_shown"
    /\ Return(r)
    /\ UNCHANGED <<adminVars, db_manager, now, conv, awards, claims>>

\* an exception left the handler: the dispatcher logs it and drops the update
error_return(r) ==
    /\ r.pc = "raised"
    /\ Return(r)
    /\ UNCHANGED <<adminVars, db_manager, now, conv, awards, claims>>

(***************************************************************************)
(* Video generation conversation                                           *)
(***************************************************************************)
RECURSIVE SumVideos(_, _)
SumVideos(db, ks) ==
    IF ks = {} THEN 0
    ELSE LET k == CHOOSE x \in ks : TRUE
         IN db.users_data[k].videos_created + SumVideos(db, ks \ {k})

TotalVideos(db) == SumVideos(db, DOMAIN db.users_data)

\* "Generate Video" in chat c, conversation at its entry point: lines 202-206
\* up to the await of reply_text.  get_user() of an unknown id is None and
\* line 203 raises TypeError.
generate_video_command(u, c) ==
    /\ <<c, u>> \in ConvKeys
    /\ conv[<<c, u>>] = "END"
    /\ Spawn(IF ~has_user(db_manager, u)
             THEN [Task("raised", u) EXCEPT !.resp = "generate_video_command"]
             ELSE IF get_user(db_manager, u).credits < VIDEO_COST
             THEN [Task("gen_refused", u) EXCEPT
                      !.chat = c, !.out = {"not_enough_credits"}]
             ELSE [Task("gen_ask", u) EXCEPT
                      !.chat = c, !.out = {"describe_video"}])
    /\ UNCHANGED <<adminVars, db_manager, now, conv, awards, claims>>

\* lines 205 / 207: the handler's return value is the conversation's new state
generate_return(r) ==
    /\ r.pc \in {"gen_refused", "gen_ask"}
    /\ conv' = [conv EXCEPT ![<<r.chat, r.user>>] =
                   IF r.pc = "gen_ask" THEN "PROMPT_INPUT" ELSE "END"]
    /\ Return(r)
    /\ UNCHANGED <<adminVars, db_manager, now, awards, claims>>

\* a text message in a conversation waiting for its prompt: lines 210-214
process_prompt(u, c, maxVideos) ==
    /\ <<c, u>> \in ConvKeys
    /\ conv[<<c, u>>] = "PROMPT_INPUT"
    /\ TotalVideos(db_manager) < maxVideos
    /\ Spawn([Task("prompt_request", u) EXCEPT !.chat = c])
    /\ UNCHANGED <<adminVars, db_manager, now, conv, awards, claims>>

\* data.get("success") of the parsed body
Success(resp) == resp \in {"SuccessNoUrl", "SuccessOk"}

\* the debit without the count of the video
DebitNoCount(db, user_id) == update_credits(db, user_id, -VIDEO_COST).db

\* lines 222-224
Debit(db, user_id) ==
    record_video_generation(update_credits(db, user_id, -VIDEO_COST).db, user_id)

\* lines 216-236 up to the await of send_video / send_message
prompt_request(r) ==
    /\ r.pc = "prompt_request"
    /\ \E resp \in Responses :
         /\ db_manager' = IF Success(resp) THEN Debit(db_manager, r.user)
                          ELSE db_manager
         /\ Step(r, IF Success(resp)
                    THEN [Task("prompt_deliver", r.user) EXCEPT
                             !.chat = r.chat, !.resp = resp]
                    ELSE [Task("prompt_cleanup", r.user) EXCEPT
                             !.chat = r.chat, !.resp = resp,
                             !.out = IF resp = "Timeout" THEN {"timed_out"}
                                     ELSE IF resp = "SuccessFalse"
                                     THEN {"could_not_create"}
                                     ELSE {"unexpected_error"}])
    /\ UNCHANGED <<adminVars, now, conv, awards, claims>>

\* lines 225-229, 234-236: send_video; whatever it raises is caught
prompt_deliver(r) ==
    /\ r.pc = "prompt_deliver"
    /\ \E d \in Deliveries :
         Step(r, [Task("prompt_cleanup", r.user) EXCEPT
                     !.chat = r.chat, !.resp = r.resp,
                     !.out = IF d = "ok" /\ r.resp = "SuccessOk"
                             THEN {"video_ready"} ELSE {"unexpected_error"}])
    /\ UNCHANGED <<adminVars, db_manager, now, conv, awards, claims>>

\* lines 238-239
prompt_return(r) ==
    /\ r.pc = "prompt_cleanup"
    /\ conv' = [conv EXCEPT ![<<r.chat, r.user>>] = "END"]
    /\ Return(r)
    /\ UNCHANGED <<adminVars, db_manager, now, awards, claims>>

\* /cancel in a conversation waiting for its prompt: lines 289-291
cancel(u, c) ==
    /\ <<c, u>> \in ConvKeys
    /\ conv[<<c, u>>] = "PROMPT_INPUT"
    /\ Spawn([Task("cancel_reply", u) EXCEPT !.chat = c, !.out = {"cancelled"}])
    /\ UNCHANGED <<adminVars, db_manager, now, conv, awards, claims>>

cancel_return(r) ==
    /\ r.pc = "cancel_reply"
    /\ conv' = [conv EXCEPT ![<<r.chat, r.user>>] = "END"]
    /\ Return(r)
    /\ UNCHANGED <<adminVars, db_manager, now, awards, claims>>

(***************************************************************************)
(* Admin features                                                          *)
(***************************************************************************)
\* chat_id: a private chat has its user's id, the group chat its own
ChatId(c, u) == IF c = PRIVATE THEN u ELSE 0

\* /admin: line 295 returns for a caller outside ADMIN_IDS
admin_command(u, c) ==
    /\ Spawn(IF u \notin ADMIN_IDS THEN [Task("admin_ignored", u) EXCEPT !.chat = c]
             ELSE [Task("admin_panel", u) EXCEPT !.chat = c, !.out = {"admin_panel"}])
    /\ UNCHANGED <<adminVars, db_manager, now, conv, awards, claims>>

\* line 301
admin_return(r) ==
    /\ r.pc \in {"admin_ignored", "admin_panel"}
    /\ panel' = IF r.pc = "admin_panel" THEN panel \cup {ChatId(r.chat, r.user)}
                ELSE panel
    /\ Return(r)
    /\ UNCHANGED <<db_manager, now, conv, awards, claims, bconv, user_data, confirm>>

\* Bot Statistics button of a panel: line 304
admin_stats_callback(u, c) ==
    /\ ChatId(c, u) \in panel
    /\ Spawn([Task("stats_answer", u) EXCEPT !.chat = c])
    /\ UNCHANGED <<adminVars, db_manager, now, conv, awards, claims>>

\* lines 305-306: sent counts the accounts
stats_answer(r) ==
    /\ r.pc = "stats_answer"
    /\ Step(r, [Task("stats_shown", r.user) EXCEPT
                   !.chat = r.chat, !.out = {"statistics"},
                   !.sent = Len(get_all_user_ids(db_manager))])
    /\ UNCHANGED <<adminVars, db_manager, now, conv, awards, claims>>

stats_return(r) ==
    /\ r.pc = "stats_shown"
    /\ Return(r)
    /\ UNCHANGED <<adminVars, db_manager, now, conv, awards, claims>>

\* Broadcast Message button of a panel: lines 309-311
admin_broadcast_start(u, c) ==
    /\ ChatId(c, u) \in panel
    /\ <<c, u>> \in ConvKeys
    /\ bconv[<<c, u>>] = "END"
    /\ Spawn([Task("bc_prompt", u) EXCEPT !.chat = c, !.out = {"send_the_message"}])
    /\ UNCHANGED <<adminVars, db_manager, now, conv, awards, claims>>

broadcast_start_return(r) ==
    /\ r.pc = "bc_prompt"
    /\ bconv' = [bconv EXCEPT ![<<r.chat, r.user>>] = "BROADCAST_MESSAGE"]
    /\ Return(r)
    /\ UNCHANGED <<db_manager, now, conv, awards, claims, user_data, panel, confirm>>

\* the message to broadcast: lines 314-316
admin_broadcast_receive(u, c) ==
    /\ <<c, u>> \in ConvKeys
    /\ bconv[<<c, u>>] = "BROADCAST_MESSAGE"
    /\ user_data' = user_data \cup {u}
    /\ Spawn([Task("bc_confirm", u) EXCEPT !.chat = c, !.out = {"confirm"},
                 !.sent = Len(get_all_user_ids(db_manager))])
    /\ UNCHANGED <<db_manager, now, conv, awards, claims, bconv, panel, confirm>>

\* line 317
broadcast_receive_return(r) ==
    /\ r.pc = "bc_confirm"
    /\ bconv' = [bconv EXCEPT ![<<r.chat, r.user>>] = "END"]
    /\ confirm' = confirm \cup {ChatId(r.chat, r.user)}
    /\ Return(r)
    /\ UNCHANGED <<db_manager, now, conv, awards, claims, user_data, panel>>

\* Confirm & Send button: line 321
admin_broadcast_send(u, c) ==
    /\ ChatId(c, u) \in confirm
    /\ Spawn([Task("bc_begin", u) EXCEPT !.chat = c])
    /\ UNCHANGED <<adminVars, db_manager, now, conv, awards, claims>>

\* lines 322-323: the recipients are the ids the dict holds when the loop begins
broadcast_begin(r) ==
    /\ r.pc = "bc_begin"
    /\ Step(r, [r EXCEPT
                  !.todo = get_all_user_ids(db_manager),
                  !.pc = IF get_all_user_ids(db_manager) = <<>> THEN "bc_report"
                         ELSE IF r.user \notin user_data THEN "raised"
                         ELSE "bc_copy",
                  !.resp = IF get_all_user_ids(db_manager) # <<>>
                              /\ r.user \notin user_data
                           THEN "KeyError" ELSE ""])
    /\ UNCHANGED <<adminVars, db_manager, now, conv, awards, claims>>

\* lines 324-327: one copy(); only Forbidden and BadRequest are caught
broadcast_copy(r) ==
    /\ r.pc = "bc_copy"
    /\ \E d \in Deliveries :
         Step(r, IF d \notin {"ok", "Forbidden", "BadRequest"}
                 THEN [r EXCEPT !.pc = "raised", !.resp = d]
                 ELSE [r EXCEPT
                         !.todo = Tail(r.todo),
                         !.sent = IF d = "ok" THEN @ + 1 ELSE @,
                         !.failed = IF d = "ok" THEN @ ELSE @ + 1,
                         !.pc = IF Tail(r.todo) = <<>> THEN "bc_report"
                                ELSE "bc_copy"])
    /\ UNCHANGED <<adminVars, db_manager, now, conv, awards, claims>>

\* lines 328-330: the report; show_main_menu(query, context) then reads
\* query.effective_chat, which a CallbackQuery does not have
broadcast_report(r) ==
    /\ r.pc = "bc_report"
    /\ Step(r, [r EXCEPT !.pc = "raised", !.resp = "show_main_menu",
                         !.out = {"report"}])
    /\ UNCHANGED <<adminVars, db_manager, now, conv, awards, claims>>

(***************************************************************************)
(* Specifications                                                          *)
(***************************************************************************)
\* Application.builder().build() keeps concurrent_updates off: an update
\* reaches its handler when the handler of the previous one has returned
Next ==
    \/ \E u \in Users, ref \in RefArgs(Users) : AllIdle /\ start_command(u, ref)
    \/ \E u \in Users, ref \in RefArgs(Users) : AllIdle /\ check_join_callback(u, ref)
    \/ \E u \in Users : AllIdle /\ claim_bonus_callback(u)
    \/ \E u \in Users : AllIdle /\ my_account_command(u)
    \/ \E u \in Creators, c \in {PRIVATE, GROUP} :
           AllIdle /\ generate_video_command(u, c)
    \/ \E u \in Creators, c \in {PRIVATE, GROUP} :
           AllIdle /\ process_prompt(u, c, MaxVideos)
    \/ \E u \in Creators, c \in {PRIVATE, GROUP} : AllIdle /\ cancel(u, c)
    \/ \E t \in Slots : start_gate(tasks[t])
    \/ \E t \in Slots : start_notify(tasks[t])
    \/ \E t \in Slots : start_welcome(tasks[t])
    \/ \E t \in Slots : start_return(tasks[t])
    \/ \E t \in Slots : join_gate(tasks[t])
    \/ \E t \in Slots : join_granted(tasks[t])
    \/ \E t \in Slots : join_notify(tasks[t])
    \/ \E t \in Slots : join_admin(tasks[t])
    \/ \E t \in Slots : join_return(tasks[t])
    \/ \E t \in Slots : bonus_return(tasks[t])
    \/ \E t \in Slots : account_return(tasks[t])
    \/ \E t \in Slots : generate_return(tasks[t])
    \/ \E t \in Slots : prompt_request(tasks[t])
    \/ \E t \in Slots : prompt_deliver(tasks[t])
    \/ \E t \in Slots : prompt_return(tasks[t])
    \/ \E t \in Slots : cancel_return(tasks[t])
    \/ \E t \in Slots : error_return(tasks[t])
    \/ Tick(MaxClock)

Spec == Init /\ [][Next]_vars

\* the same handlers with updates dispatched concurrently, two at a time,
\* in private chats and within one hour of the clock
NextConcurrent ==
    \/ \E u \in Users, ref \in RefArgs(Users) : start_command(u, ref)
    \/ \E u \in Users, ref \in RefArgs(Users) : check_join_callback(u, ref)
    \/ \E u \in Users : claim_bonus_callback(u)
    \/ \E u \in Creators : generate_video_command(u, PRIVATE)
    \/ \E u \in Creators : process_prompt(u, PRIVATE, MaxVideosConcurrent)
    \/ \E u \in Creators : cancel(u, PRIVATE)
    \/ \E t \in Slots : start_gate(tasks[t])
    \/ \E t \in Slots : start_notify(tasks[t])
    \/ \E t \in Slots : start_welcome(tasks[t])
    \/ \E t \in Slots : start_return(tasks[t])
    \/ \E t \in Slots : join_gate(tasks[t])
    \/ \E t \in Slots : join_granted(tasks[t])
    \/ \E t \in Slots : join_notify(tasks[t])
    \/ \E t \in Slots : join_admin(tasks[t])
    \/ \E t \in Slots : join_return(tasks[t])
    \/ \E t \in Slots : bonus_return(tasks[t])
    \/ \E t \in Slots : generate_return(tasks[t])
    \/ \E t \in Slots : prompt_request(tasks[t])
    \/ \E t \in Slots : prompt_deliver(tasks[t])
    \/ \E t \in Slots : prompt_return(tasks[t])
    \/ \E t \in Slots : cancel_return(tasks[t])
    \/ \E t \in Slots : error_return(tasks[t])

SpecConcurrent == Init /\ [][NextConcurrent]_vars

\* /start of the three ids and the admin features, in the private chats
\* and in the group chat
NextAdmin ==
    \/ \E u \in Ids : AllIdle /\ start_command(u, None)
    \/ \E u \in Ids, c \in {PRIVATE, GROUP} :
           AllIdle /\ <<c, u>> \in ConvKeys /\ admin_command(u, c)
    \/ \E u \in Ids, c \in {PRIVATE, GROUP} :
           AllIdle /\ <<c, u>> \in ConvKeys /\ admin_stats_callback(u, c)
    \/ \E u \in Ids, c \in {PRIVATE, GROUP} :
           AllIdle /\ admin_broadcast_start(u, c)
    \/ \E u \in Ids, c \in {PRIVATE, GROUP} :
           AllIdle /\ admin_broadcast_receive(u, c)
    \/ \E u \in Ids, c \in {PRIVATE, GROUP} :
           AllIdle /\ <<c, u>> \in ConvKeys /\ admin_broadcast_send(u, c)
    \/ \E t \in Slots : start_gate(tasks[t])
    \/ \E t \in Slots : start_welcome(tasks[t])
    \/ \E t \in Slots : start_return(tasks[t])
    \/ \E t \in Slots : admin_return(tasks[t])
    \/ \E t \in Slots : stats_answer(tasks[t])
    \/ \E t \in Slots : stats_return(tasks[t])
    \/ \E t \in Slots : broadcast_start_return(tasks[t])
    \/ \E t \in Slots : broadcast_receive_return(tasks[t])
    \/ \E t \in Slots : broadcast_begin(tasks[t])
    \/ \E t \in Slots : broadcast_copy(tasks[t])
    \/ \E t \in Slots : broadcast_report(tasks[t])
    \/ \E t \in Slots : error_return(tasks[t])

SpecAdmin == Init /\ [][NextAdmin]_vars

(***************************************************************************)
(* Properties                                                              *)
(***************************************************************************)
Account(u) == get_user(db_manager, u)

RECURSIVE Sum(_, _)
Sum(f, S) ==
    IF S = {} THEN 0
    ELSE LET x == CHOOSE y \in S : TRUE IN f[x] + Sum(f, S \ {x})

\* referral credits applied to a's account
AwardsTo(a) == Sum(awards[a], Ids)
\* referral credits applied on behalf of b
AwardsFor(b) == Sum([a \in Ids |-> awards[a][b]], Ids)

\* C1: in every reachable state every account's credits balance is >= 0,
\* also when one user has two prompt conversations open at once.
C1_CreditsNeverNegative ==
    \A u \in Ids : has_user(db_manager, u) => Account(u).credits >= 0

FailureMessages == {"timed_out", "could_not_create", "unexpected_error"}

\* C2: process_prompt changes the ledger only on a well-formed success
\* response (credits - VIDEO_COST, videos_created + 1); on a timeout, an
\* HTTP error, an unparsable body, a body without a usable url or
\* success=false it changes nothing and the user is sent a failure message.
C2_DebitOnlyOnConfirmedSuccess ==
    [][\A t \in Slots :
         (tasks[t].pc = "prompt_request" /\ tasks'[t].pc # "prompt_request") =>
            IF tasks'[t].resp = "SuccessOk"
            THEN /\ get_user(db_manager', tasks[t].user).credits
                      = Account(tasks[t].user).credits - 10
                 /\ get_user(db_manager', tasks[t].user).videos_created
                      = Account(tasks[t].user).videos_created + 1
            ELSE /\ db_manager' = db_manager
                 /\ tasks'[t].out \cap FailureMessages # {}]_vars

\* C3: an account that never claimed can claim; right after a claim that
\* returned True it cannot, and it can again exactly when the clock is at
\* least 24 hours past the stored last_bonus_claim; so two claims of one
\* account that returned True are at least 24 hours apart.
C3_BonusEligibility ==
    /\ [](\A u \in Ids : has_user(db_manager, u) =>
            /\ (claims[u] = 0) <=> (Account(u).last_bonus_claim = NoStamp)
            /\ IF claims[u] = 0 THEN can_claim_bonus(db_manager, u, now)
               ELSE can_claim_bonus(db_manager, u, now)
                      <=> now - fromisoformat(Account(u).last_bonus_claim) >= 24)
    /\ [][\A u \in Ids : claims'[u] # claims[u] =>
            /\ ~can_claim_bonus(db_manager', u, now')
            /\ fromisoformat(get_user(db_manager', u).last_bonus_claim) = now
            /\ claims[u] > 0 =>
                 now - fromisoformat(Account(u).last_bonus_claim) >= 24]_vars

\* two claims of one account returned True, the second one just now
C3_Witness ==
    \E u \in Ids :
        /\ claims[u] = 2
        /\ \E t \in Slots : tasks[t].pc = "bonus_answer" /\ tasks[t].user = u
                             /\ tasks[t].flag
        /\ ~can_claim_bonus(db_manager, u, now)

\* C4: of the claim-bonus handler tasks of one account scheduled
\* concurrently within one 24-hour window at most one gets True, and the
\* account is credited DAILY_BONUS once.
C4_OneBonusPerWindow ==
    \A u \in Ids :
        /\ claims[u] <= 1
        /\ Cardinality({t \in Slots : tasks[t].pc = "bonus_answer"
                                        /\ tasks[t].user = u /\ tasks[t].flag}) <= 1
        /\ has_user(db_manager, u) =>
             Account(u).credits = 50 + 20 * claims[u] + 30 * AwardsTo(u)
                                     - 10 * Account(u).videos_created

\* two claim-bonus tasks of one account in flight: one got True, one False
C4_Witness ==
    \E s, t \in Slots :
        /\ tasks[s].pc = "bonus_answer" /\ tasks[t].pc = "bonus_answer"
        /\ tasks[s].user = tasks[t].user
        /\ tasks[s].flag /\ ~tasks[t].flag

\* C5: add_user of an id that has an account returns False and changes
\* nothing, whatever happened to the account since; add_user of an id that
\* has none returns True, stores credits=50, videos_created=0 and no bonus
\* stamp and no referrer, and leaves the other accounts as they are.
C5_CreateAccountIdempotent ==
    \A u \in Ids :
        LET a == add_user(db_manager, u)
        IN IF has_user(db_manager, u)
           THEN a.ret = FALSE /\ a.db = db_manager
           ELSE /\ a.ret = TRUE
                /\ get_user(a.db, u) = [credits |-> 50, videos_created |-> 0,
                                        last_bonus_claim |-> NoStamp,
                                        referred_by |-> None]
                /\ \A v \in Ids \ {u} :
                     /\ has_user(a.db, v) <=> has_user(db_manager, v)
                     /\ has_user(db_manager, v) => get_user(a.db, v) = Account(v)

\* /start of a user whose account has been referred, credited by a bonus and
\* debited by videos has run add_user again
C5_Witness ==
    \E t \in Slots :
        /\ tasks[t].pc = "start_menu" /\ tasks[t].out = {}
        /\ has_user(db_manager, tasks[t].user)
        /\ Account(tasks[t].user).videos_created > 0
        /\ Account(tasks[t].user).last_bonus_claim # NoStamp
        /\ Account(tasks[t].user).referred_by # None
        /\ Account(tasks[t].user).credits # 50

\* C6: set_referrer(id, id) returns False and leaves referred_by as it is,
\* for every id, at the ledger operation itself.
C6_SelfReferralRefused ==
    \A u \in Ids :
        /\ set_referrer(db_manager, u, u).ret = FALSE
        /\ set_referrer(db_manager, u, u).db = db_manager

\* C7: once an account's referred_by is set, set_referrer with another
\* referrer returns False and changes nothing, and no step changes it.
C7_ReferredByWriteOnce ==
    /\ [](\A u \in Ids :
            (has_user(db_manager, u) /\ Account(u).referred_by # None) =>
               \A r2 \in Ids \ {Account(u).referred_by} :
                  /\ set_referrer(db_manager, u, r2).ret = FALSE
                  /\ set_referrer(db_manager, u, r2).db = db_manager)
    /\ [][\A u \in Ids :
            (has_user(db_manager, u) /\ Account(u).referred_by # None) =>
               /\ has_user(db_manager', u)
               /\ get_user(db_manager', u).referred_by = Account(u).referred_by]_vars

\* an account referred by r, with its admission flow run again since
C7_Witness ==
    \E t \in Slots :
        /\ tasks[t].pc \in {"start_menu", "join_menu"} /\ tasks[t].out = {}
        /\ has_user(db_manager, tasks[t].user)
        /\ Account(tasks[t].user).referred_by \in Ids
        /\ Ids \ {Account(tasks[t].user).referred_by} # {}

\* C8: when A has an account and B is created with A as referrer, A's
\* credits grow by REFERRAL_BONUS in that step, and never again for B,
\* however often and however interleaved B's admission flows run.
C8_ReferralBonusOnce ==
    /\ [](\A b \in Ids :
            /\ AwardsFor(b) <= 1
            /\ \A a \in Ids : awards[a][b] = 1 =>
                  /\ has_user(db_manager, b) /\ Account(b).referred_by = a
                  /\ has_user(db_manager, a)
            /\ has_user(db_manager, b) =>
                 Account(b).credits = 50 + 20 * claims[b] + 30 * AwardsTo(b)
                                         - 10 * Account(b).videos_created)
    /\ [][\A a, b \in Ids :
            (/\ has_user(db_manager, a) /\ ~has_user(db_manager, b)
             /\ has_user(db_manager', b)
             /\ get_user(db_manager', b).referred_by = a) =>
               /\ awards'[a][b] = 1
               /\ get_user(db_manager', a).credits = Account(a).credits + 30]_vars

\* B's admission flow runs twice at once: one task created B and awaits the
\* referrer's notification, the other has run add_user since
C8_Witness ==
    \E s, t \in Slots :
        /\ tasks[s].pc \in {"start_notify", "join_notify"} /\ tasks[s].flag
        /\ tasks[t].pc \in {"start_menu", "join_menu"} /\ tasks[t].out = {}
        /\ tasks[s].user = tasks[t].user
        /\ awards[tasks[s].ref][tasks[s].user] = 1

\* C9: an account without bonus and referral credits holds 50 - 10 * videos
\* (10 after four, 0 after five); "Generate Video" is admitted exactly when
\* credits >= 10 and changes nothing itself, a refusal ends the conversation;
\* a successful generation takes 10 credits and counts one video.
C9_GenerationMetering ==
    /\ [](\A u \in Ids :
            (has_user(db_manager, u) /\ claims[u] = 0 /\ AwardsTo(u) = 0) =>
               Account(u).credits = 50 - 10 * Account(u).videos_created)
    /\ [][\A t \in Slots :
            /\ (tasks[t] = Idle /\ tasks'[t].pc \in {"gen_ask", "gen_refused"}) =>
                 /\ (tasks'[t].pc = "gen_ask")
                       <=> (Account(tasks'[t].user).credits >= 10)
                 /\ db_manager' = db_manager /\ conv' = conv
            /\ (tasks[t].pc \in {"gen_ask", "gen_refused"} /\ tasks'[t] = Idle) =>
                 /\ conv'[<<tasks[t].chat, tasks[t].user>>] =
                       IF tasks[t].pc = "gen_ask" THEN "PROMPT_INPUT" ELSE "END"
                 /\ db_manager' = db_manager
            /\ (tasks[t].pc = "prompt_request" /\ tasks'[t].pc = "prompt_deliver") =>
                 /\ get_user(db_manager', tasks[t].user).credits
                       = Account(tasks[t].user).credits - 10
                 /\ get_user(db_manager', tasks[t].user).videos_created
                       = Account(tasks[t].user).videos_created + 1]_vars

\* the sixth attempt of an account that made five videos is refused
C9_Witness ==
    \E t \in Slots :
        /\ tasks[t].pc = "gen_refused"
        /\ claims[tasks[t].user] = 0 /\ AwardsTo(tasks[t].user) = 0
        /\ Account(tasks[t].user).videos_created = 5
        /\ Account(tasks[t].user).credits = 0

\* C10: whatever deliveries fail in a broadcast, no exception leaves the
\* loop, every recipient is attempted and sent + failed is the number of
\* accounts.
C10_BroadcastFailureTolerant ==
    \A t \in Slots :
        /\ ~(tasks[t].pc = "raised" /\ tasks[t].resp \in Deliveries)
        /\ tasks[t].pc = "bc_report" =>
             tasks[t].sent + tasks[t].failed = Len(get_all_user_ids(db_manager))

\* C11: the gate fails closed and comes before the account: when
\* get_chat_member answers a status that is not a member's, or raises, the
\* handler goes on as for a non-member, nothing is raised and the ledger is
\* left as it is; an account appears only in a /start or Verify Membership
\* task whose membership test answered a member's status.
C11_GateFailsClosed ==
    [][/\ \A t \in Slots :
            (tasks[t].pc \in {"start_gate", "join_gate"}
               /\ tasks'[t].pc # tasks[t].pc) =>
              /\ tasks'[t].pc # "raised"
              /\ tasks'[t].resp \in {"in", "out", "error"}
              /\ (tasks'[t].pc \in {"start_denied", "join_denied"})
                    <=> (tasks'[t].resp # "in")
              /\ tasks'[t].resp # "in" =>
                    db_manager' = db_manager /\ awards' = awards
       /\ \A u \in Ids :
            (~has_user(db_manager, u) /\ has_user(db_manager', u)) =>
               \E t \in Slots :
                  /\ tasks[t].user = u
                  /\ \/ tasks[t].pc = "start_gate" /\ tasks'[t].resp = "in"
                     \/ tasks[t].pc = "join_granted" /\ tasks[t].resp = "in"]_vars

\* get_chat_member raised for a user without an account: access is denied
\* and there is still no account
C11_Witness ==
    \E t \in Slots :
        /\ tasks[t].pc \in {"start_denied", "join_denied"}
        /\ tasks[t].resp = "error"
        /\ ~has_user(db_manager, tasks[t].user)

AdminSteps == {"admin_panel", "stats_answer", "stats_shown", "bc_prompt",
               "bc_confirm", "bc_begin", "bc_copy", "bc_report"}

\* C12: the admin panel, the statistics, the broadcast conversation and the
\* confirmed broadcast are carried out only for a caller in ADMIN_IDS,
\* through the command as through the buttons.
C12_AdminOnly ==
    /\ \A t \in Slots : tasks[t].pc \in AdminSteps => tasks[t].user \in ADMIN_IDS
    /\ \A k \in ConvKeys : bconv[k] # "END" => k[2] \in ADMIN_IDS
    /\ user_data \subseteq ADMIN_IDS

LedgerHandlers == {"generate_video_command", "my_account_command",
                   "claim_bonus_callback"}

\* C13: an id without an account is a no-op: "Generate Video", "My Account"
\* and the bonus button of a user without an account raise nothing and
\* change nothing (the bonus button's claim_bonus returns False), and so do
\* the ledger operations called with such an id.
C13_NoAccountIsNoOp ==
    /\ \A t \in Slots :
         ~(tasks[t].pc = "raised" /\ tasks[t].resp \in LedgerHandlers)
    /\ \A u \in Ids : ~has_user(db_manager, u) =>
         /\ update_credits(db_manager, u, DAILY_BONUS).db = db_manager
         /\ record_video_generation(db_manager, u) = db_manager
         /\ set_referrer(db_manager, u, None).db = db_manager

\* the document on disk is the dict in memory
Persisted(db) ==
    db.file = [exists |-> TRUE, users_data |-> db.users_data, keys |-> db.keys]

\* C14: every mutation rewrites the whole document: wherever a handler
\* yields or returns the document on disk is the dict in memory (there is no
\* document only as long as nothing was stored), every ledger operation that
\* mutates returns with the document rewritten, and a duplicate add_user, a
\* refused set_referrer, an early claim_bonus and an unknown id write nothing.
C14_PersistedAfterEveryMutation ==
    /\ IF db_manager.file.exists THEN Persisted(db_manager)
       ELSE db_manager = NewManager
    /\ \A u \in Ids :
         /\ IF has_user(db_manager, u)
            THEN /\ add_user(db_manager, u).db = db_manager
                 /\ Persisted(update_credits(db_manager, u, -VIDEO_COST).db)
                 /\ Persisted(record_video_generation(db_manager, u))
                 /\ IF can_claim_bonus(db_manager, u, now)
                    THEN Persisted(claim_bonus(db_manager, u, now).db)
                    ELSE claim_bonus(db_manager, u, now).db = db_manager
            ELSE /\ Persisted(add_user(db_manager, u).db)
                 /\ update_credits(db_manager, u, -VIDEO_COST).db = db_manager
                 /\ record_video_generation(db_manager, u) = db_manager
         /\ \A r \in Ids :
              IF set_referrer(db_manager, u, r).ret
              THEN Persisted(set_referrer(db_manager, u, r).db)
              ELSE set_referrer(db_manager, u, r).db = db_manager

\* process_prompt awaits send_video after the debit, for an account that
\* has been referred and has claimed a bonus
C14_Witness ==
    \E t \in Slots :
        /\ tasks[t].pc = "prompt_deliver"
        /\ Account(tasks[t].user).videos_created > 0
        /\ Account(tasks[t].user).last_bonus_claim # NoStamp
        /\ Account(tasks[t].user).referred_by # None
        /\ db_manager.file.users_data = db_manager.users_data

AdmissionHandlers == {"start_command", "check_join_callback"}

C16_CreditStandsWhenNotifyFails ==
    /\ [](\A t \in Slots :
            (tasks[t].pc = "raised" /\ tasks[t].resp \in AdmissionHandlers) =>
               /\ has_user(db_manager, tasks[t].user)
               /\ Account(tasks[t].user).referred_by \in Ids
               /\ Persisted(db_manager)
               /\ LET a == Account(tasks[t].user).referred_by
                  IN has_user(db_manager, a) =>
                       /\ awards[a][tasks[t].user] = 1
                       /\ Account(a).credits =
                             50 + 20 * claims[a] + 30 * AwardsTo(a)
                                - 10 * Account(a).videos_created)
    /\ [][\A t \in Slots :
            (tasks[t].pc \in {"start_notify", "join_notify"}
               /\ tasks'[t] # tasks[t]) =>
                 db_manager' = db_manager /\ awards' = awards]_vars

\* the notification of a credited referrer failed and left the handler
C16_Witness ==
    \E t \in Slots :
        /\ tasks[t].pc = "raised" /\ tasks[t].resp \in AdmissionHandlers
        /\ has_user(db_manager, tasks[t].user)
        /\ Account(tasks[t].user).referred_by \in Ids
        /\ has_user(db_manager, Account(tasks[t].user).referred_by)
        /\ awards[Account(tasks[t].user).referred_by][tasks[t].user] = 1
        /\ Account(Account(tasks[t].user).referred_by).credits >= 80

\* C17: claim_bonus applies its two effects together.  A call that returns
\* True leaves the claim's time and DAILY_BONUS more credits in the dict and
\* in every document it writes; a call that returns False writes nothing and
\* changes nothing.  So no step another task can observe advances
\* last_bonus_claim without the credit or credits the bonus without the time.
C17_BonusEffectsTogether ==
    /\ [](\A u \in Ids : has_user(db_manager, u) =>
            /\ (Account(u).last_bonus_claim # NoStamp) <=> (claims[u] > 0)
            /\ db_manager.file.users_data[str(u)] = Account(u)
            /\ LET c == claim_bonus(db_manager, u, now)
               IN IF c.ret
                  THEN /\ get_user(c.db, u) =
                             [Account(u) EXCEPT
                                 !.last_bonus_claim = isoformat(now),
                                 !.credits = @ + 20]
                       /\ c.writes # <<>>
                       /\ \A i \in 1..Len(c.writes) :
                             c.writes[i].users_data[str(u)] = get_user(c.db, u)
                  ELSE c.db = db_manager /\ c.writes = <<>>)
    /\ [][/\ \A u \in Ids : has_user(db_manager, u) =>
              /\ (get_user(db_manager', u).last_bonus_claim
                     # Account(u).last_bonus_claim)
                    <=> (claims'[u] = claims[u] + 1)
              /\ claims'[u] # claims[u] =>
                    get_user(db_manager', u).credits = Account(u).credits + 20
              /\ claims'[u] = claims[u] =>
                    get_user(db_manager', u).credits
                        \in {Account(u).credits, Account(u).credits + 30,
                             Account(u).credits - 10}
          /\ \A t \in Slots :
               (tasks[t] = Idle /\ tasks'[t].pc = "bonus_answer"
                  /\ ~tasks'[t].flag) => db_manager' = db_manager]_vars

\* the account's claim returned True and, before its answer is delivered,
\* the same user's "Generate Video" reads the account
C17_Witness ==
    \E s, t \in Slots :
        /\ tasks[s].pc = "bonus_answer" /\ tasks[s].flag
        /\ tasks[t].pc = "gen_ask" /\ tasks[t].user = tasks[s].user
        /\ Account(tasks[s].user).last_bonus_claim # NoStamp
        /\ Account(tasks[s].user).credits = 70

\* amounts update_credits is called with
Deltas == {-47, -10, -1, 20}

\* update_credits(user_id, amount) on db adds amount, whatever its sign and
\* whatever balance results, saves and returns the balance; for an id
\* without an account it returns None and changes nothing
Unclamped(db, user_id, amount) ==
    LET r == update_credits(db, user_id, amount)
    IN IF has_user(db, user_id)
       THEN /\ ~r.absent
            /\ r.ret = get_user(db, user_id).credits + amount
            /\ r.db.users_data =
                 [db.users_data EXCEPT ![str(user_id)].credits = @ + amount]
            /\ r.db.keys = db.keys
            /\ Persisted(r.db)
       ELSE r.absent /\ r.db = db

\* C18: update_credits has no floor: on every account and for every amount
\* it stores old + amount, saves and returns the new balance, below zero as
\* well (50 - 47 = 3, then 3 - 5 = -2); for an id without an account it
\* returns None and changes nothing.
C18_AdjustCreditsUnclamped ==
    \A u \in Ids, d \in Deltas :
        /\ Unclamped(db_manager, u, d)
        /\ Unclamped(update_credits(db_manager, u, d).db, u, -5)

\* process_prompt has debited an account that held no credits
C18_Witness ==
    \E t \in Slots :
        /\ tasks[t].pc = "prompt_deliver"
        /\ Account(tasks[t].user).credits < 0
        /\ Persisted(db_manager)

\* C19: no credit is lost or made, however the handler tasks interleave at
\* their awaits: in the dict and in the document every account holds
\* 50 + 20 * (its bonus claims that returned True) + 30 * (the referral
\* credits applied to it) - 10 * videos_created, and no step shows the
\* debit of a video without its count or the count without the debit.
C19_CreditConservation ==
    /\ [](\A u \in Ids : has_user(db_manager, u) =>
            /\ Account(u).credits + 10 * Account(u).videos_created
                 = 50 + 20 * claims[u] + 30 * AwardsTo(u)
            /\ db_manager.file.users_data[str(u)].credits = Account(u).credits
            /\ db_manager.file.users_data[str(u)].videos_created
                 = Account(u).videos_created)
    /\ [][\A u \in Ids : has_user(db_manager, u) =>
            /\ get_user(db_manager', u).videos_created # Account(u).videos_created
                 => /\ get_user(db_manager', u).videos_created
                         = Account(u).videos_created + 1
                    /\ get_user(db_manager', u).credits = Account(u).credits - 10
            /\ get_user(db_manager', u).credits < Account(u).credits
                 => get_user(db_manager', u).videos_created
                       = Account(u).videos_created + 1]_vars

\* an account that claimed a bonus: its video has been debited and, while
\* send_video is awaited, it is credited for a referral
C19_Witness ==
    \E s, t \in Slots :
        /\ tasks[s].pc = "prompt_deliver"
        /\ tasks[t].pc \in {"start_notify", "join_notify"}
        /\ tasks[t].ref = tasks[s].user
        /\ claims[tasks[s].user] = 1
        /\ AwardsTo(tasks[s].user) = 1
        /\ Account(tasks[s].user).videos_created = 1
        /\ Account(tasks[s].user).credits = 90

\* accounts whose referred_by is r
ReferredBy(r) ==
    {u \in Ids : has_user(db_manager, u) /\ Account(u).referred_by = r}

\* C20: a referral is backed by a credited referrer: an account's
\* referred_by, once set to r, names another id that has an account and that
\* was credited REFERRAL_BONUS for this referral, so that r has as many
\* referred accounts as referral credits.
C20_ReferralBackedByCredit ==
    /\ \A u \in Ids :
         (has_user(db_manager, u) /\ Account(u).referred_by # None) =>
            /\ Account(u).referred_by # u
            /\ has_user(db_manager, Account(u).referred_by)
            /\ awards[Account(u).referred_by][u] = 1
    /\ \A r \in Ids : Cardinality(ReferredBy(r)) = AwardsTo(r)

====
